---- MODULE Spec2Model ----
(***************************************************************************)
(* A model of the PAdES-tool core:                                         *)
(*   app/pdf/pdf_signer.py                    PDFSigner                    *)
(*   app/pendrive_detection/pendrive_detector.py   PenDriveFinder          *)
(*   keys-generator/verify.py                 the sign-and-verify script   *)
(*                                                                         *)
(* The cryptography library is modelled by a small RSA with an EMSA-PSS   *)
(* style encoding computed on short bit strings: a digest, a mask         *)
(* generation function, a salted encoding, modular exponentiation.        *)
(***************************************************************************)
EXTENDS Integers, Sequences, FiniteSets, TLC

VARIABLES
    fs,            \* the document file: exists, readable, writable, content
    _private_key,  \* PDFSigner._private_key
    pc,            \* position of the running sign call: "idle" or "append"
    signature,     \* sign's local variable `signature`
    pdf_content,   \* the bytes the running call read
    last,          \* what the last finished sign call did
    log,           \* the sign calls that appended: what each read and wrote
    calls,         \* number of sign calls started
    other_writes,  \* number of writes of other processes to the document
    platform,      \* sys.platform
    _wmi_client,   \* PenDriveFinder._wmi_client
    block_devices, \* pyudev: disk node -> removable flag, partitions
    mounts,        \* psutil.disk_partitions(): device of each mount entry
    wmi_drives,    \* wmi: Win32_DiskDrive() with the associated logical disks
    pen_drives,    \* what find_all_pen_drives gave
    listing,       \* os.scandir: volume -> its top-level entries
    volumes,       \* the argument of find_pen_drive_with_private_key
    found,         \* what the finder gave
    private_pem,   \* the file private-key.pem of verify.py
    public_pem,    \* the file public-key.pem of verify.py
    pin,           \* what pwinput gave
    script         \* what a run of verify.py did

vars == <<fs, _private_key, pc, signature, pdf_content, last, log, calls,
          other_writes,
          platform, _wmi_client, block_devices, mounts, wmi_drives, pen_drives,
          listing, volumes, found, private_pem, public_pem, pin, script>>

signerVars == <<fs, _private_key, pc, signature, pdf_content, last, log, calls,
                other_writes>>
locatorVars == <<platform, _wmi_client, block_devices, mounts, wmi_drives, pen_drives>>
finderVars == <<listing, volumes, found>>
scriptVars == <<private_pem, public_pem, pin, script>>

None == "None"

-----------------------------------------------------------------------------
(* Bounds of the model.                                                    *)

MaxDocLen == 1      \* length of the document before any signature
MaxCalls == 2       \* sign calls in one behaviour
MaxOtherWrites == 1 \* writes of another process to the document
MaxParts == 1       \* partitions of one disk
MaxMounts == 2      \* entries of the mount table
MaxDrives == 2      \* Win32 disk drives
MaxEntries == 1     \* directory entries of one volume
MaxVolumes == 2     \* length of the finder's argument

-----------------------------------------------------------------------------
(* The cryptography library, on short bit strings.                         *)

DocBytes == {0, 1}

RECURSIVE Pow2(_)
Pow2(k) == IF k = 0 THEN 1 ELSE 2 * Pow2(k - 1)

RECURSIVE BitLen(_)
BitLen(x) == IF x = 0 THEN 0 ELSE 1 + BitLen(x \div 2)

RECURSIVE Xor(_, _)
Xor(a, b) ==
    IF a = 0 THEN b
    ELSE IF b = 0 THEN a
    ELSE ((a + b) % 2) + 2 * Xor(a \div 2, b \div 2)

RECURSIVE ModExp(_, _, _)
ModExp(b, e, n) ==
    IF e = 0 THEN 1 % n
    ELSE LET h == ModExp(b, e \div 2, n)
             s == (h * h) % n
         IN IF e % 2 = 1 THEN (s * b) % n ELSE s

\* hashes.SHA256() and a second algorithm, as digests of HashBits bits
HashBits == [SHA256 |-> 3, SHA1 |-> 2]
HashMul == [SHA256 |-> 5, SHA1 |-> 3]

RECURSIVE Digest(_, _)
Digest(alg, bytes) ==
    IF bytes = <<>> THEN HashMul[alg] % Pow2(HashBits[alg])
    ELSE (Digest(alg, SubSeq(bytes, 1, Len(bytes) - 1)) * HashMul[alg]
            + bytes[Len(bytes)] + 1) % Pow2(HashBits[alg])

\* padding.MGF1(alg): a mask of `bits` bits from a seed
MGF1(alg, seed, bits) == Digest(alg, <<seed, 0>>) * 3 % Pow2(bits)

\* the two RSA key pairs that exist; a private key carries d, a public key e
KeyPairs == {[n |-> 55, e |-> 3, d |-> 27], [n |-> 51, e |-> 3, d |-> 11]}
public_key_of(k) == [n |-> k.n, e |-> k.e]

emBits(n) == BitLen(n) - 1

\* padding.PSS.MAX_LENGTH, padding.PSS.DIGEST_LENGTH resolved against a key
salt_bits(pad, alg, n) ==
    IF pad.salt_length = "MAX_LENGTH" THEN emBits(n) - HashBits[alg] - 1
    ELSE HashBits[alg]

Salts(pad, alg, n) == 0 .. (Pow2(salt_bits(pad, alg, n)) - 1)

\* EMSA-PSS-ENCODE: H = Hash(mHash || salt), DB = 1 || salt, EM = (DB xor mask) || H
pss_encode(pad, alg, n, data, salt) ==
    LET mHash == Digest(alg, data)
        H == Digest(alg, <<mHash, salt>>)
        sb == salt_bits(pad, alg, n)
        DB == Pow2(sb) + salt
        db == emBits(n) - HashBits[alg]
    IN Xor(DB, MGF1(pad.mgf, H, db)) * Pow2(HashBits[alg]) + H

\* RSAPrivateKey.sign(data, padding, algorithm) with the salt the call drew
rsa_sign(key, data, pad, alg, salt) ==
    ModExp(pss_encode(pad, alg, key.n, data, salt), key.d, key.n)

\* RSAPublicKey.verify(signature, data, padding, algorithm): TRUE when it
\* returns, FALSE when it raises InvalidSignature
rsa_verify(pub, sig, data, pad, alg) ==
    LET em == ModExp(sig % pub.n, pub.e, pub.n)
        hb == HashBits[alg]
        db == emBits(pub.n) - hb
        sb == salt_bits(pad, alg, pub.n)
        H == em % Pow2(hb)
        DB == Xor(em \div Pow2(hb), MGF1(pad.mgf, H, db))
        salt == DB % Pow2(sb)
    IN /\ sig < pub.n
       /\ em < Pow2(emBits(pub.n))
       /\ DB \div Pow2(sb) = 1
       /\ Digest(alg, <<Digest(alg, data), salt>>) = H

-----------------------------------------------------------------------------
(* keys-generator/verify.py, lines 30-43: the verification                 *)

\* a verifier whose digest is not the signer's
VerifierAlgorithmSHA1 == "SHA1"

\* the padding and the digest the script passes to verify
VerifierPadding == [mgf |-> "SHA256", salt_length |-> "MAX_LENGTH"]
VerifierAlgorithm == "SHA256"

\* public_key.verify(...) in its try block: the line the script prints
verify_signature(pub, sig, message) ==
    IF rsa_verify(pub, sig, message, VerifierPadding, VerifierAlgorithm)
    THEN "signature verified"
    ELSE "Invalid signature"

-----------------------------------------------------------------------------
(* app/pdf/pdf_signer.py                                                   *)

RECURSIVE SeqsUpTo(_, _)
SeqsUpTo(S, k) ==
    IF k = 0 THEN {<<>>}
    ELSE LET shorter == SeqsUpTo(S, k - 1)
         IN shorter \cup {Append(q, x) : q \in shorter, x \in S}

Documents == SeqsUpTo(DocBytes, MaxDocLen)

NoFile == [exists |-> FALSE, readable |-> FALSE, writable |-> FALSE, content |-> <<>>]

Files ==
    {NoFile} \cup
    [exists : {TRUE}, readable : BOOLEAN, writable : BOOLEAN, content : Documents]

\* the padding and the digest _generate_signature passes to sign
SignerPadding == [mgf |-> "SHA256", salt_length |-> "MAX_LENGTH"]
SignerAlgorithm == "SHA256"

\* no key held
NoKey == [n |-> 0, e |-> 0, d |-> 0]

NoSignature == [kind |-> "None", bytes |-> <<>>]

\* open(path, "rb"): the exception it raises, or None
open_rb(f) ==
    IF ~f.exists THEN "FileNotFoundError"
    ELSE IF ~f.readable THEN "PermissionError"
    ELSE None

\* open(path, "ab"): the exception it raises, or None; a missing file is created
open_ab(f) ==
    IF f.exists /\ ~f.writable THEN "PermissionError" ELSE None

\* PDFSigner._generate_signature: the signature, None on FileNotFoundError,
\* any other exception propagates
_generate_signature(key, f, salt) ==
    IF open_rb(f) = "FileNotFoundError"
    THEN [kind |-> "return", exc |-> None, value |-> NoSignature]
    ELSE IF open_rb(f) # None
    THEN [kind |-> "raise", exc |-> open_rb(f), value |-> NoSignature]
    ELSE [kind |-> "return", exc |-> None,
          value |-> [kind |-> "bytes",
                     bytes |-> <<rsa_sign(key, f.content, SignerPadding,
                                          SignerAlgorithm, salt)>>]]

\* an append that writes the signature in two write calls
append_signature_twice(f, sig) ==
    IF open_ab(f) # None
    THEN [kind |-> "raise", exc |-> open_ab(f), fs |-> f, writes |-> <<>>]
    ELSE [kind |-> "return", exc |-> None,
          fs |-> [exists |-> TRUE,
                  readable |-> IF f.exists THEN f.readable ELSE TRUE,
                  writable |-> TRUE,
                  content |-> f.content \o sig.bytes \o sig.bytes],
          writes |-> <<sig.bytes, sig.bytes>>]

\* sign, lines 33-34: open in append mode and write the signature
append_signature(f, sig) ==
    IF open_ab(f) # None
    THEN [kind |-> "raise", exc |-> open_ab(f), fs |-> f, writes |-> <<>>]
    ELSE [kind |-> "return", exc |-> None,
          fs |-> [exists |-> TRUE,
                  readable |-> IF f.exists THEN f.readable ELSE TRUE,
                  writable |-> TRUE,
                  content |-> f.content \o sig.bytes],
          writes |-> <<sig.bytes>>]

\* a sign that opens the document for appending before it has a signature
sign_call_append_first(key, f, salt) ==
    LET g == _generate_signature(key, f, salt)
        opened == append_signature(f, NoSignature)
        a == append_signature(f, g.value)
        read == IF open_rb(f) = None THEN f.content ELSE <<>>
    IN IF opened.kind = "raise"
       THEN [kind |-> "raise", exc |-> opened.exc, value |-> None, fs |-> f,
             signature |-> NoSignature, read |-> read, writes |-> <<>>]
       ELSE IF g.kind = "raise"
       THEN [kind |-> "raise", exc |-> g.exc, value |-> None, fs |-> opened.fs,
             signature |-> NoSignature, read |-> read, writes |-> <<>>]
       ELSE IF g.value.kind = "None"
       THEN [kind |-> "return", exc |-> None, value |-> None, fs |-> opened.fs,
             signature |-> NoSignature, read |-> read, writes |-> <<>>]
       ELSE [kind |-> a.kind, exc |-> a.exc, value |-> None, fs |-> a.fs,
             signature |-> g.value, read |-> read, writes |-> a.writes]

\* PDFSigner.sign as one call on file f: what it returns or raises, the file
\* after it, what it read and the write calls it made
sign_call(key, f, salt) ==
    LET g == _generate_signature(key, f, salt)
        a == append_signature(f, g.value)
        read == IF open_rb(f) = None THEN f.content ELSE <<>>
    IN IF g.kind = "raise"
       THEN [kind |-> "raise", exc |-> g.exc, value |-> None, fs |-> f,
             signature |-> NoSignature, read |-> read, writes |-> <<>>]
       ELSE IF g.value.kind = "None"
       THEN [kind |-> "return", exc |-> None, value |-> None, fs |-> f,
             signature |-> NoSignature, read |-> read, writes |-> <<>>]
       ELSE [kind |-> a.kind, exc |-> a.exc, value |-> None, fs |-> a.fs,
             signature |-> g.value, read |-> read, writes |-> a.writes]

NoCall ==
    [called |-> FALSE, kind |-> "return", exc |-> None, value |-> None, pre |-> NoFile,
     post |-> NoFile, signature |-> NoSignature, read |-> <<>>, writes |-> <<>>]

Finished(r, pre) ==
    [called |-> TRUE, kind |-> r.kind, exc |-> r.exc, value |-> r.value, pre |-> pre,
     post |-> r.fs,
     signature |-> r.signature, read |-> r.read, writes |-> r.writes]

Logged(r) ==
    IF r.writes # <<>>
    THEN Append(log, [read |-> r.read, sig |-> r.signature.bytes, after |-> r.fs.content])
    ELSE log

InitSigner ==
    /\ fs \in Files
    /\ _private_key \in KeyPairs
    /\ pc = "idle"
    /\ signature = NoSignature
    /\ pdf_content = <<>>
    /\ last = NoCall
    /\ log = <<>>
    /\ calls = 0
    /\ other_writes = 0

\* signer.sign(path), run to its end with nothing else acting on the file
sign ==
    /\ pc = "idle"
    /\ calls < MaxCalls
    /\ \E salt \in Salts(SignerPadding, SignerAlgorithm, _private_key.n) :
         LET r == sign_call(_private_key, fs, salt)
         IN /\ fs' = r.fs
            /\ last' = Finished(r, fs)
            /\ log' = Logged(r)
    /\ calls' = calls + 1
    /\ UNCHANGED <<_private_key, pc, signature, pdf_content, other_writes>>

\* sign, line 28: the call of _generate_signature, and the return of line 31
sign_generate ==
    /\ pc = "idle"
    /\ calls < MaxCalls
    /\ calls' = calls + 1
    /\ \E salt \in Salts(SignerPadding, SignerAlgorithm, _private_key.n) :
         LET g == _generate_signature(_private_key, fs, salt)
             read == IF open_rb(fs) = None THEN fs.content ELSE <<>>
         IN IF g.kind = "return" /\ g.value.kind = "bytes"
            THEN /\ pc' = "append"
                 /\ signature' = g.value
                 /\ pdf_content' = read
                 /\ last' = [NoCall EXCEPT !.pre = fs]
                 /\ UNCHANGED log
            ELSE /\ last' = Finished([kind |-> g.kind, exc |-> g.exc, value |-> None,
                                      fs |-> fs,
                                      signature |-> NoSignature, read |-> read,
                                      writes |-> <<>>], fs)
                 /\ UNCHANGED <<pc, signature, pdf_content, log>>
    /\ UNCHANGED <<fs, _private_key, other_writes>>

\* sign, lines 33-34, on the file as it is by then
sign_append ==
    /\ pc = "append"
    /\ LET a == append_signature(fs, signature)
           r == [kind |-> a.kind, exc |-> a.exc, value |-> None, fs |-> a.fs,
                 signature |-> signature, read |-> pdf_content, writes |-> a.writes]
       IN /\ fs' = a.fs
          /\ last' = Finished(r, last.pre)
          /\ log' = Logged(r)
    /\ pc' = "idle"
    /\ signature' = NoSignature
    /\ pdf_content' = <<>>
    /\ UNCHANGED <<_private_key, calls, other_writes>>

\* another process appends a byte to the document
other_write ==
    /\ fs.exists
    /\ other_writes < MaxOtherWrites
    /\ \E b \in DocBytes : fs' = [fs EXCEPT !.content = Append(@, b)]
    /\ other_writes' = other_writes + 1
    /\ UNCHANGED <<_private_key, pc, signature, pdf_content, last, log, calls>>

\* another process removes the document
other_remove ==
    /\ fs.exists
    /\ fs' = NoFile
    /\ UNCHANGED <<_private_key, pc, signature, pdf_content, last, log, calls,
                   other_writes>>

\* another process changes the permissions of the document
other_chmod ==
    /\ fs.exists
    /\ \E r \in BOOLEAN, w \in BOOLEAN :
         /\ <<r, w>> # <<fs.readable, fs.writable>>
         /\ fs' = [fs EXCEPT !.readable = r, !.writable = w]
    /\ UNCHANGED <<_private_key, pc, signature, pdf_content, last, log, calls,
                   other_writes>>

-----------------------------------------------------------------------------
(* app/pendrive_detection/pendrive_detector.py: find_all_pen_drives        *)

Platforms == {"linux", "win32", "darwin", "freebsd"}

DiskNames == <<"sda", "sdb">>

\* a device node: the disk itself (part 0) or its partition number `part`
Node(d, k) == [disk |-> d, part |-> k]

\* pyudev: the disks in the order list_devices gives them, each with its
\* "removable" attribute and the number of its partitions
BlockDeviceTables ==
    [1 .. Len(DiskNames) -> [removable : {"0", "1"}, nparts : 0 .. MaxParts]]

\* the device nodes that exist: every disk and each of its partitions
NodesOf(devs) ==
    {Node(DiskNames[i], 0) : i \in DOMAIN devs}
        \cup UNION {{Node(DiskNames[i], k) : k \in 1 .. devs[i].nparts} : i \in DOMAIN devs}

\* psutil.disk_partitions(): entry i is device table[i] mounted at mount point i
disk_partitions(table) ==
    [i \in DOMAIN table |-> [device |-> table[i], mountpoint |-> i]]

\* {p.device: p.mountpoint for p in ...}.get(node): a later entry of the same
\* device replaces an earlier one; 0 stands for None
partition_mounts_get(table, node) ==
    LET hits == {i \in DOMAIN table : disk_partitions(table)[i].device = node}
    IN IF hits = {} THEN 0
       ELSE disk_partitions(table)[CHOOSE i \in hits : \A j \in hits : j <= i].mountpoint

\* the inner loop over the partitions of one disk, from partition k on
RECURSIVE partitions_of(_, _, _, _)
partitions_of(table, d, k, nparts) ==
    IF k > nparts THEN <<>>
    ELSE LET mount_point == partition_mounts_get(table, Node(d, k))
         IN (IF mount_point # 0 THEN <<mount_point>> ELSE <<>>)
                \o partitions_of(table, d, k + 1, nparts)

\* a loop that looks at the partitions and never at the disk's own mount
linux_disk_partitions_only(devs, table, i) ==
    IF devs[i].removable = "1"
    THEN partitions_of(table, DiskNames[i], 1, devs[i].nparts)
    ELSE <<>>

\* the body of the loop over the disks, for disk i
linux_disk(devs, table, i) ==
    IF devs[i].removable = "1"
    THEN LET mount_point == partition_mounts_get(table, Node(DiskNames[i], 0))
         IN IF mount_point # 0 THEN <<mount_point>>
            ELSE partitions_of(table, DiskNames[i], 1, devs[i].nparts)
    ELSE <<>>

\* PenDriveFinder.__find_all_pen_drives_linux, from disk i on
RECURSIVE find_all_pen_drives_linux(_, _, _)
find_all_pen_drives_linux(devs, table, i) ==
    IF i > Len(devs) THEN <<>>
    ELSE linux_disk(devs, table, i) \o find_all_pen_drives_linux(devs, table, i + 1)

\* wmi: a drive has an interface type and partitions, a partition its logical
\* disks (their DeviceID)
LogicalDisks == {<<>>, <<"E:">>, <<"F:">>}
WmiDrives == [InterfaceType : {"USB", "IDE"}, partitions : SeqsUpTo(LogicalDisks, 1)]

RECURSIVE Flatten(_)
Flatten(ss) == IF ss = <<>> THEN <<>> ELSE Head(ss) \o Flatten(Tail(ss))

\* PenDriveFinder.__find_all_pen_drives_win, from drive i on
RECURSIVE find_all_pen_drives_win(_, _)
find_all_pen_drives_win(drives, i) ==
    IF i > Len(drives) THEN <<>>
    ELSE (IF drives[i].InterfaceType = "USB" THEN Flatten(drives[i].partitions)
          ELSE <<>>) \o find_all_pen_drives_win(drives, i + 1)

\* a dispatch whose macOS branch raises instead of falling through
find_all_pen_drives_macos_raises(plat, devs, table, drives) ==
    IF plat = "linux"
    THEN [kind |-> "return", exc |-> None,
          value |-> find_all_pen_drives_linux(devs, table, 1)]
    ELSE IF plat = "win32"
    THEN [kind |-> "return", exc |-> None, value |-> find_all_pen_drives_win(drives, 1)]
    ELSE IF plat = "darwin"
    THEN [kind |-> "raise", exc |-> "NotImplementedError", value |-> <<>>]
    ELSE [kind |-> "return", exc |-> None, value |-> <<>>]

\* PenDriveFinder.find_all_pen_drives
find_all_pen_drives(plat, devs, table, drives) ==
    IF plat = "linux"
    THEN [kind |-> "return", exc |-> None,
          value |-> find_all_pen_drives_linux(devs, table, 1)]
    ELSE IF plat = "win32"
    THEN [kind |-> "return", exc |-> None, value |-> find_all_pen_drives_win(drives, 1)]
    ELSE [kind |-> "return", exc |-> None, value |-> <<>>]

NotCalled == [kind |-> "not called", exc |-> None, value |-> <<>>]

InitLocator ==
    /\ platform \in Platforms
    /\ _wmi_client = None
    /\ block_devices \in IF platform = "linux" THEN BlockDeviceTables ELSE {<<>>}
    /\ mounts \in IF platform = "linux"
                  THEN SeqsUpTo(NodesOf(block_devices), MaxMounts) ELSE {<<>>}
    /\ wmi_drives \in IF platform = "win32"
                      THEN SeqsUpTo(WmiDrives, MaxDrives) ELSE {<<>>}
    /\ pen_drives = NotCalled

\* finder.find_all_pen_drives()
call_find_all_pen_drives ==
    /\ pen_drives' = find_all_pen_drives(platform, block_devices, mounts, wmi_drives)
    /\ _wmi_client' = IF platform = "win32" THEN "wmi.WMI()" ELSE _wmi_client
    /\ UNCHANGED <<platform, block_devices, mounts, wmi_drives>>

-----------------------------------------------------------------------------
(* app/pendrive_detection/pendrive_detector.py: the key file finder        *)

VolumeNames == {"/mnt/a", "/mnt/b"}

\* file names, as their characters
EntryNames ==
    {<<"k", ".", "p", "e", "m">>, <<".", "p", "e", "m">>,
     <<"k", ".", "p", "e", "m", ".", "b">>, <<"k", "p", "e", "m">>}

\* os.DirEntry: a name, and whether is_file() holds
Entries == [name : EntryNames, is_file : BOOLEAN]

PemSuffix == <<".", "p", "e", "m">>

\* str.endswith
endswith(name, suffix) ==
    /\ Len(name) >= Len(suffix)
    /\ SubSeq(name, Len(name) - Len(suffix) + 1, Len(name)) = suffix

\* a test that forgets is_file()
is_key_entry_by_name(entry) == endswith(entry.name, PemSuffix)

\* entry.name.endswith(".pem") and entry.is_file()
is_key_entry(entry) == endswith(entry.name, PemSuffix) /\ entry.is_file

\* the loop over os.scandir(pen_drive), from entry j on: whether it returns
RECURSIVE scan_finds_key(_, _)
scan_finds_key(entries, j) ==
    IF j > Len(entries) THEN FALSE
    ELSE IF is_key_entry(entries[j]) THEN TRUE
    ELSE scan_finds_key(entries, j + 1)

\* PenDriveFinder.find_pen_drive_with_private_key, from pen drive i on
RECURSIVE find_pen_drive_with_private_key(_, _, _)
find_pen_drive_with_private_key(dirs, drives, i) ==
    IF i > Len(drives) THEN None
    ELSE IF scan_finds_key(dirs[drives[i]], 1) THEN drives[i]
    ELSE find_pen_drive_with_private_key(dirs, drives, i + 1)

\* PenDriveFinder.get_private_key_path, from entry j on: entry.path, or None
RECURSIVE get_private_key_path(_, _, _)
get_private_key_path(dirs, drive, j) ==
    IF j > Len(dirs[drive]) THEN [dir |-> None, name |-> <<>>]
    ELSE IF is_key_entry(dirs[drive][j])
    THEN [dir |-> drive, name |-> dirs[drive][j].name]
    ELSE get_private_key_path(dirs, drive, j + 1)

NotSearched == [called |-> FALSE, value |-> None, path |-> [dir |-> None, name |-> <<>>]]

InitFinder ==
    /\ listing \in [VolumeNames -> SeqsUpTo(Entries, MaxEntries)]
    /\ volumes \in SeqsUpTo(VolumeNames, MaxVolumes)
    /\ found = NotSearched

\* PenDriveFinder.find_pen_drive_with_private_key(volumes)
call_find_pen_drive_with_private_key ==
    /\ ~found.called
    /\ found' = [called |-> TRUE,
                 value |-> find_pen_drive_with_private_key(listing, volumes, 1),
                 path |-> found.path]
    /\ UNCHANGED <<listing, volumes>>

\* PenDriveFinder.get_private_key_path(pen_drive), on the volume found
call_get_private_key_path ==
    /\ found.called
    /\ found.value # None
    /\ found.path.dir = None
    /\ found' = [found EXCEPT !.path = get_private_key_path(listing, found.value, 1)]
    /\ UNCHANGED <<listing, volumes>>

-----------------------------------------------------------------------------
(* keys-generator/verify.py: the script, run once                          *)

Pins == {<<1>>, <<2>>, <<1, 2>>}

\* sha256(pin.encode()).digest()
hashed_pin(p) == Digest("SHA256", p)

\* message = b"Test message to sign"
message == <<1, 0>>

\* the padding and the digest the script passes to sign
ScriptSignPadding == [mgf |-> "SHA256", salt_length |-> "MAX_LENGTH"]
ScriptSignAlgorithm == "SHA256"

\* what private-key.pem may be: missing, not a PEM key, a key encrypted under
\* a password, a key that is not encrypted
PrivateKeyFiles ==
    [kind : {"missing", "malformed"}, key : {NoKey}, password : {0}]
    \cup [kind : {"encrypted"}, key : KeyPairs, password : {hashed_pin(p) : p \in Pins}]
    \cup [kind : {"plain"}, key : KeyPairs, password : {0}]

PublicKeyFiles ==
    [kind : {"missing", "malformed"}, key : {NoKey}]
    \cup [kind : {"public"}, key : KeyPairs]

\* open("private-key.pem", "rb") and serialization.load_pem_private_key(...,
\* password): the exception raised, or None
load_pem_private_key(file, password) ==
    IF file.kind = "missing" THEN "FileNotFoundError"
    ELSE IF file.kind = "malformed" THEN "ValueError"
    ELSE IF file.kind = "plain" THEN "TypeError"
    ELSE IF file.password # password THEN "ValueError"
    ELSE None

\* open("public-key.pem", "rb") and serialization.load_pem_public_key
load_pem_public_key(file) ==
    IF file.kind = "missing" THEN "FileNotFoundError"
    ELSE IF file.kind = "malformed" THEN "ValueError"
    ELSE None

Report(stdout, exit, exc, sig) ==
    [ran |-> TRUE, stdout |-> stdout, exit |-> exit, exc |-> exc, signature |-> sig]

NotRun == [ran |-> FALSE, stdout |-> <<>>, exit |-> 0, exc |-> None, signature |-> NoSignature]

\* the whole script: what it prints, how it ends (exit status, or the
\* exception of an uncaught traceback) and the signature it made
verify_script(priv, pub, p, salt) ==
    LET loaded == load_pem_private_key(priv, hashed_pin(p))
        sig == [kind |-> "bytes",
                bytes |-> <<rsa_sign(priv.key, message, ScriptSignPadding,
                                     ScriptSignAlgorithm, salt)>>]
    IN IF loaded = "ValueError"
       THEN Report(<<"Invalid password">>, 1, None, NoSignature)
       ELSE IF loaded # None
       THEN Report(<<>>, 1, loaded, NoSignature)
       ELSE IF load_pem_public_key(pub) # None
       THEN Report(<<"message signed">>, 1, load_pem_public_key(pub), sig)
       ELSE Report(<<"message signed",
                     verify_signature(public_key_of(pub.key), sig.bytes[1], message)>>,
                   0, None, sig)

InitScript ==
    /\ private_pem \in PrivateKeyFiles
    /\ public_pem \in PublicKeyFiles
    /\ pin \in Pins
    /\ script = NotRun

\* python verify.py
run_verify_script ==
    /\ ~script.ran
    /\ \E salt \in IF load_pem_private_key(private_pem, hashed_pin(pin)) = None
                   THEN Salts(ScriptSignPadding, ScriptSignAlgorithm, private_pem.key.n)
                   ELSE {0} :
         script' = verify_script(private_pem, public_pem, pin, salt)
    /\ UNCHANGED <<private_pem, public_pem, pin>>

InitRest ==
    /\ platform = "darwin"
    /\ _wmi_client = None
    /\ block_devices = <<>>
    /\ mounts = <<>>
    /\ wmi_drives = <<>>
    /\ pen_drives = NotCalled
    /\ listing = <<>>
    /\ volumes = <<>>
    /\ found = NotSearched
    /\ private_pem = [kind |-> "missing", key |-> NoKey, password |-> 0]
    /\ public_pem = [kind |-> "missing", key |-> NoKey]
    /\ pin = <<>>
    /\ script = NotRun

Init == InitSigner /\ InitRest

Next ==
    \/ sign /\ UNCHANGED <<locatorVars, finderVars, scriptVars>>
    \/ other_write /\ UNCHANGED <<locatorVars, finderVars, scriptVars>>
    \/ other_remove /\ UNCHANGED <<locatorVars, finderVars, scriptVars>>
    \/ other_chmod /\ UNCHANGED <<locatorVars, finderVars, scriptVars>>

\* the signer, each sign call running to its end undisturbed
Spec == Init /\ [][Next]_vars

NextRace ==
    \/ sign_generate /\ UNCHANGED <<locatorVars, finderVars, scriptVars>>
    \/ sign_append /\ UNCHANGED <<locatorVars, finderVars, scriptVars>>
    \/ other_write /\ UNCHANGED <<locatorVars, finderVars, scriptVars>>
    \/ other_remove /\ UNCHANGED <<locatorVars, finderVars, scriptVars>>
    \/ other_chmod /\ UNCHANGED <<locatorVars, finderVars, scriptVars>>

\* the signer with other processes acting between its two opens of the file
SpecRace == Init /\ [][NextRace]_vars

InitIdleSigner ==
    /\ fs = NoFile
    /\ _private_key = NoKey
    /\ pc = "idle"
    /\ signature = NoSignature
    /\ pdf_content = <<>>
    /\ last = NoCall
    /\ log = <<>>
    /\ calls = 0
    /\ other_writes = 0

InitLocatorOnly ==
    /\ InitIdleSigner
    /\ InitLocator
    /\ listing = <<>>
    /\ volumes = <<>>
    /\ found = NotSearched
    /\ private_pem = [kind |-> "missing", key |-> NoKey, password |-> 0]
    /\ public_pem = [kind |-> "missing", key |-> NoKey]
    /\ pin = <<>>
    /\ script = NotRun

NextLocator ==
    call_find_all_pen_drives /\ UNCHANGED <<signerVars, finderVars, scriptVars>>

\* the locator on every platform and device table within the bounds
SpecLocator == InitLocatorOnly /\ [][NextLocator]_vars

InitFinderOnly ==
    /\ InitIdleSigner
    /\ platform = "darwin"
    /\ _wmi_client = None
    /\ block_devices = <<>>
    /\ mounts = <<>>
    /\ wmi_drives = <<>>
    /\ pen_drives = NotCalled
    /\ InitFinder
    /\ private_pem = [kind |-> "missing", key |-> NoKey, password |-> 0]
    /\ public_pem = [kind |-> "missing", key |-> NoKey]
    /\ pin = <<>>
    /\ script = NotRun

NextFinder ==
    \/ call_find_pen_drive_with_private_key
          /\ UNCHANGED <<signerVars, locatorVars, scriptVars>>
    \/ call_get_private_key_path
          /\ UNCHANGED <<signerVars, locatorVars, scriptVars>>

\* the finder on every argument and directory content within the bounds
SpecFinder == InitFinderOnly /\ [][NextFinder]_vars

InitScriptOnly ==
    /\ InitIdleSigner
    /\ platform = "darwin"
    /\ _wmi_client = None
    /\ block_devices = <<>>
    /\ mounts = <<>>
    /\ wmi_drives = <<>>
    /\ pen_drives = NotCalled
    /\ listing = <<>>
    /\ volumes = <<>>
    /\ found = NotSearched
    /\ InitScript

NextScript ==
    run_verify_script /\ UNCHANGED <<signerVars, locatorVars, finderVars>>

\* the script on every pair of key files and every PIN within the bounds
SpecScript == InitScriptOnly /\ [][NextScript]_vars

-----------------------------------------------------------------------------
(* The claims about the signer.                                            *)

\* C1: a sign call on a document that cannot be read (absent, or permission
\* denied) returns an explicit DocumentUnreadable outcome to its caller and
\* writes nothing.
C1_UnreadableIsReported ==
    (last.called /\ open_rb(last.pre) # None) =>
        /\ last.kind = "return"
        /\ last.value = "DocumentUnreadable"
        /\ last.writes = <<>>
        /\ last.post = last.pre

\* C2: sign appends only after _generate_signature returned a signature: a
\* call in which reading or signing failed (None, or an exception) leaves the
\* file as it was and makes no write call, and a call that succeeds makes
\* exactly one write call, of the whole signature, after the bytes it read.
C2_AppendOnlyAfterSignature ==
    last.called =>
        /\ (last.signature.kind = "None" =>
               last.writes = <<>> /\ last.post = last.pre)
        /\ (last.kind = "raise" => last.writes = <<>> /\ last.post = last.pre)
        /\ (last.kind = "return" /\ last.signature.kind = "bytes" =>
               /\ last.writes = <<last.signature.bytes>>
               /\ last.post.content = last.pre.content \o last.signature.bytes)

\* a call that appended, followed by a call that failed to read
C2_Witness ==
    /\ log # <<>>
    /\ last.called
    /\ last.signature.kind = "None"
    /\ last.writes = <<>>

\* C3: the signature the signer produces over the bytes D of a document
\* is accepted by the verifier given the matching public key, D and that
\* signature.
C3_SignThenVerify ==
    (last.called /\ last.signature.kind = "bytes") =>
        verify_signature(public_key_of(_private_key), last.signature.bytes[1],
                         last.read) = "signature verified"

\* a signature over a non-empty document
C3_Witness ==
    /\ last.called
    /\ last.signature.kind = "bytes"
    /\ last.read # <<>>

\* C4 as stated: of two successive sign calls on the same path, the second
\* reading the file the first left, both signatures verify against the
\* document the first call signed.
C4_BothVerifyAgainstDocument ==
    (Len(log) >= 2 /\ log[2].read = log[1].after) =>
        /\ verify_signature(public_key_of(_private_key), log[1].sig[1],
                            log[1].read) = "signature verified"
        /\ verify_signature(public_key_of(_private_key), log[2].sig[1],
                            log[1].read) = "signature verified"

\* C4 as amended: every sign call that appends leaves the bytes it read
\* followed by its signature, and its signature verifies against the bytes it
\* read: of two successive calls the first against D, the second against D
\* followed by the first signature.
C4_EachVerifiesAgainstWhatItRead ==
    \A i \in DOMAIN log :
        /\ log[i].after = log[i].read \o log[i].sig
        /\ verify_signature(public_key_of(_private_key), log[i].sig[1],
                            log[i].read) = "signature verified"

\* two successive calls, the second reading what the first left, with
\* different signature bytes
C4_Witness ==
    /\ Len(log) >= 2
    /\ log[2].read = log[1].read \o log[1].sig
    /\ log[2].sig # log[1].sig

\* C9: once a sign call has returned, the PDFSigner no longer holds the
\* decrypted private key.
C9_KeyDroppedAfterSign ==
    (last.called /\ pc = "idle") => _private_key = NoKey

\* C10: after a sign call that appended, the file is the bytes the call read
\* followed by the signature, whatever other processes did to the file between
\* the read and the append.
C10_SignatureCoversPrefix ==
    (last.called /\ last.writes # <<>>) =>
        last.post.content = last.read \o last.signature.bytes

-----------------------------------------------------------------------------
(* The claims about the finder and the locator.                            *)

\* the volumes of the argument that hold a regular file named *.pem
HasKeyFile(v) ==
    \E j \in DOMAIN listing[v] :
        /\ listing[v][j].is_file
        /\ Len(listing[v][j].name) >= 4
        /\ SubSeq(listing[v][j].name, Len(listing[v][j].name) - 3,
                  Len(listing[v][j].name)) = <<".", "p", "e", "m">>

Reported == {pen_drives.value[i] : i \in DOMAIN pen_drives.value}

MountPointsOf(node) == {j \in DOMAIN mounts : mounts[j] = node}

RemovableDisks == {i \in DOMAIN block_devices : block_devices[i].removable = "1"}

-----------------------------------------------------------------------------
(* The claim about key loading.                                            *)

\* C8: the failures of loading the private key are told apart: what a wrong
\* passphrase is reported as is reported for nothing else (not for a
\* malformed nor for a missing key file), a missing key file is reported as
\* such, and after a failure no signature is produced.
C8_FailuresDistinguished ==
    script.ran =>
        /\ script.stdout = <<"Invalid password">> =>
              /\ private_pem.kind = "encrypted"
              /\ private_pem.password # hashed_pin(pin)
        /\ (private_pem.kind = "encrypted" /\ private_pem.password # hashed_pin(pin)) =>
              script.stdout = <<"Invalid password">>
        /\ private_pem.kind = "missing" => script.exc = "FileNotFoundError"
        /\ load_pem_private_key(private_pem, hashed_pin(pin)) # None =>
              script.signature = NoSignature

====
